---- MODULE Spec2Model ----
(***************************************************************************)
(* Storage allocation and retention of the recorder (src/recorder/main.py) *)
(* as a state machine: the removable volumes under the mount root, the     *)
(* free space of every filesystem, the recorded segments, the round-robin  *)
(* cursor and the position of the capture loop.                            *)
(*                                                                         *)
(* Volumes are numbered; the number order of the removable volumes is the  *)
(* order of their paths /media/<user>/<device>, compared component by      *)
(* component as pathlib compares them.  Free space and segment sizes are   *)
(* counted in GiB, the unit of CONFIG["min_free_space_gb"].  A volume's    *)
(* segments are the .h264 files the scan of lines 76-95 reaches, in        *)
(* directory-listing order.                                                *)
(***************************************************************************)
EXTENDS Integers, Sequences, FiniteSets, TLC

\* ---------------------------------------------------------------- bounds
NumUsb == 2      \* removable volumes that can appear under the mount root
MaxFree == 2     \* largest free space a volume starts with
MaxSegs == 1     \* segments on disk when the process starts
MaxCycles == 3   \* iterations of the capture loop that are followed

\* ------------------------------------------------------------- constants
min_free_space_gb == 2          \* CONFIG["min_free_space_gb"]
Primary == 0                    \* CONFIG["recordings_dir"], the desktop volume
None == <<>>                    \* Python's None / no value yet
Some(x) == <<x>>                \* a value that is set
Val(o) == o[1]

Usb == 1..NumUsb
AllVols == Usb \cup {Primary}
Times == 1..MaxSegs             \* modification times of the initial segments
SegmentSize == 1                \* GiB one rotation interval writes when there is room
MaxTied == 2                    \* segments on disk where equal times are followed
SegSizes == {SegmentSize}       \* sizes of the initial segments
Segment == [mtime : Times, size : SegSizes]

VARIABLES
    media,          \* the directory tree below CONFIG["usb_mount_path"]
    free,           \* free[v]: free space of volume v's filesystem
    files,          \* files[v]: segments under v's Recordings, listing order
    _current_usb_index,  \* the allocation cursor (line 21)
    pc,             \* position of main's loop
    cycle,          \* completed iterations of the loop
    usb_devices,    \* get_next_recording_dir's snapshot (line 121)
    target,         \* the volume this call enforces retention on
    result,         \* the volume whose directory the call returned
    err,            \* the exception that ended the try block
    iters,          \* free_up_space: loop iterations of this call
    call0,          \* what held when the call began (cursor, segments, ...)
    lastDel,        \* the call's last deletion: volume, place in the listing
                    \* and time, or None
    encoder,        \* "off" | "on": picam2's encoder
    recVol,         \* the volume of the path handed to the encoder
    dirs            \* volumes on which today's date folder exists

vars == <<media, free, files, _current_usb_index, pc, cycle, usb_devices,
          target, result, err, iters, call0, lastDel, encoder, recVol, dirs>>

\* ------------------------------------------------------------ helpers
Min2(a, b) == IF a < b THEN a ELSE b

SetMin(S) == CHOOSE x \in S : \A y \in S : x <= y

\* sorted(usb_devices), line 51
RECURSIVE sorted(_)
sorted(S) == IF S = {} THEN <<>> ELSE <<SetMin(S)>> \o sorted(S \ {SetMin(S)})

\* The mount tree: /media/<user>/<device>.  The first user directory can hold
\* every removable volume, the second one a single device.
Users == {1, 2}
DevNames(u) == IF u = 1 THEN Usb ELSE {1}
Slots == {s \in Users \X Usb : s[2] \in DevNames(s[1])}

\* a directory's entries are named 1..n: their names in ascending order
Ascending(names) == [i \in 1..Cardinality(names) |-> i]

\* the number of the volume at /media/<u>/<d>: number order is path order
PathId(u, d) == (u - 1) * (NumUsb + 1) + d

\* what lines 38 and 42-47 read of a first-level entry, and lines 43-44 of a
\* second-level entry; hidden stands for name.startswith(".")
UserEntry == [is_dir : BOOLEAN, hidden : BOOLEAN, denied : BOOLEAN]
DevEntry == [is_dir : BOOLEAN, hidden : BOOLEAN, writable : BOOLEAN]
MediaTrees == [exists : BOOLEAN, denied : BOOLEAN, reversed : BOOLEAN,
               user : [Users -> UserEntry], dev : [Slots -> DevEntry]]

\* the tree in which exactly the volumes of M are mounted, all under user 1
MountTree(M) ==
    [exists |-> TRUE, denied |-> FALSE, reversed |-> FALSE,
     user |-> [u \in Users |-> [is_dir |-> TRUE, hidden |-> FALSE,
                                denied |-> FALSE]],
     dev |-> [s \in Slots |->
                 LET there == s[1] = 1 /\ s[2] \in M
                 IN [is_dir |-> there, hidden |-> FALSE, writable |-> there]]]

Elems(s) == {s[i] : i \in DOMAIN s}

Reverse(s) == [i \in 1..Len(s) |-> s[Len(s) + 1 - i]]

\* lines 37 and 42, iterdir(): the names of a directory in the order the
\* filesystem lists them, ascending or descending
iterdir(names) ==
    IF media.reversed THEN Reverse(Ascending(names)) ELSE Ascending(names)

\* lines 24-28
is_writable(u, d) == media.dev[<<u, d>>].writable

\* lines 41-47: the device directories of one user directory; a listing
\* that is refused yields nothing for this subtree
DeviceScan(u) ==
    IF media.user[u].denied THEN <<>>
    ELSE LET kept == SelectSeq(iterdir(DevNames(u)),
                               LAMBDA d : /\ media.dev[<<u, d>>].is_dir
                                          /\ ~media.dev[<<u, d>>].hidden
                                          /\ is_writable(u, d))
         IN [i \in 1..Len(kept) |-> PathId(u, kept[i])]

\* lines 37-45: the outer loop over the user directories
RECURSIVE UserScan(_)
UserScan(users) ==
    IF users = <<>> THEN <<>>
    ELSE LET u == Head(users)
         IN (IF media.user[u].is_dir /\ ~media.user[u].hidden
             THEN DeviceScan(u) ELSE <<>>) \o UserScan(Tail(users))

\* lines 33-34 and 48-49: a missing root, or a root whose listing is refused,
\* yields no device
RootScan ==
    IF ~media.exists \/ media.denied THEN <<>> ELSE UserScan(iterdir(Users))

\* mutant of get_usb_devices: the devices are returned in listing order
get_usb_devices_unsorted == RootScan

\* lines 31-51: the writable device directories, in path order
get_usb_devices == sorted(Elems(RootScan))

\* the removable volumes a discovery finds now
mounted == Elems(get_usb_devices)

\* lines 54-56
get_available_space_gb(v) == free[v]

\* mutants of is_device_full: the threshold missed by one, either way
is_device_full_off_by_one(v, min_space_gb) ==
    get_available_space_gb(v) < min_space_gb - 1

is_device_full_at_threshold(v, min_space_gb) ==
    get_available_space_gb(v) <= min_space_gb

\* lines 59-60
is_device_full(v, min_space_gb) == get_available_space_gb(v) < min_space_gb

\* mutant of get_all_recording_dirs: the removable volumes are forgotten
get_all_recording_dirs_primary_only == <<Primary>>

\* lines 63-69: removable volumes in catalogue order, then the primary
get_all_recording_dirs == get_usb_devices \o <<Primary>>

\* lines 81-87: the entries of one Recordings tree, in listing order
DirEntries(v) == [i \in 1..Len(files[v]) |-> <<v, i>>]

RECURSIVE ScanOrder(_)
ScanOrder(recording_dirs) ==
    IF recording_dirs = <<>> THEN <<>>
    ELSE DirEntries(Head(recording_dirs)) \o ScanOrder(Tail(recording_dirs))

SegAt(e) == files[e[1]][e[2]]

\* mutant of Older: the comparison reversed, the newest file wins
Older_newest(e, oldest) == oldest = None \/ SegAt(e).mtime > SegAt(oldest).mtime

\* mutant of Older: <= for <, a later file of equal time replaces the oldest
Older_or_equal(e, oldest) == oldest = None \/ SegAt(e).mtime <= SegAt(oldest).mtime

\* lines 89-91: a file replaces the oldest so far only when strictly older
Older(e, oldest) == oldest = None \/ SegAt(e).mtime < SegAt(oldest).mtime

RECURSIVE ScanFold(_, _)
ScanFold(entries, oldest) ==
    IF entries = <<>> THEN oldest
    ELSE ScanFold(Tail(entries),
                  IF Older(Head(entries), oldest) THEN Head(entries) ELSE oldest)

\* lines 72-97
find_oldest_recording == ScanFold(ScanOrder(get_all_recording_dirs), None)

\* mutant of Unlink: the file stays on disk
Unlink_keeps(e) == files

\* removing one entry of a listing
RemoveAt(s, i) == [j \in 1..(Len(s) - 1) |-> IF j < i THEN s[j] ELSE s[j + 1]]

\* line 111: oldest_file.unlink()
Unlink(e) == [files EXCEPT ![e[1]] = RemoveAt(files[e[1]], e[2])]

Reclaimed(e) == [free EXCEPT ![e[1]] = free[e[1]] + SegAt(e).size]

\* line 127: the removable volume at cursor mod count
TargetIndex(devs, cursor) == cursor % Len(devs)

\* mutant of SelectTarget: a full removable volume is skipped for the primary
SelectTarget_fallback(devs, cursor) ==
    IF devs # <<>> /\ free[devs[TargetIndex(devs, cursor) + 1]] >= min_free_space_gb
    THEN devs[TargetIndex(devs, cursor) + 1]
    ELSE Primary

\* mutant of SelectTarget: the index is taken modulo the number of volumes
\* there can be, not of those in the snapshot
SelectTarget_modulo_all(devs, cursor) ==
    IF devs # <<>> THEN (cursor % NumUsb) + 1 ELSE Primary

\* lines 125-127 and 133: the one volume this call considers
SelectTarget(devs, cursor) ==
    IF devs # <<>> THEN devs[TargetIndex(devs, cursor) + 1] ELSE Primary

\* mutant of AdvanceCursor: the cursor moves on the primary fallback too
AdvanceCursor_always(devs, cursor) == cursor + 1

\* line 130
AdvanceCursor(devs, cursor) == IF devs # <<>> THEN cursor + 1 ELSE cursor

\* mutant of mkdir_can_raise: exist_ok=False, an existing folder is an error
mkdir_can_raise_exist_not_ok(v) == TRUE

\* line 148, mkdir(parents=True, exist_ok=True): an existing folder is
\* accepted; a folder that must be created can be refused (lines 149-155)
mkdir_can_raise(v) == v \notin dirs

\* line 148: the date folder of volume v exists afterwards
mkdir(v) == dirs \cup {v}

\* the volumes whose Recordings tree the scan visits
Catalogued == mounted \cup {Primary}

RECURSIVE SumLen(_)
SumLen(S) == IF S = {} THEN 0
             ELSE LET v == CHOOSE x \in S : TRUE
                  IN Len(files[v]) + SumLen(S \ {v})

\* ------------------------------------------------------------------ Init
BoundedSeqs(S, n) == UNION {[1..k -> S] : k \in 0..n}

Init ==
    /\ files \in [AllVols -> BoundedSeqs(Segment, MaxSegs)]
    /\ SumLen(AllVols) <= MaxSegs
    /\ \E M \in SUBSET Usb : media = MountTree(M)
    /\ free \in [AllVols -> 0..MaxFree]
    /\ _current_usb_index = 0
    /\ pc = "loop"
    /\ cycle = 0
    /\ usb_devices = <<>>
    /\ target = Primary
    /\ result = None
    /\ err = "none"
    /\ iters = 0
    /\ call0 = None
    /\ lastDel = None
    /\ encoder = "off"
    /\ recVol = None
    /\ dirs = {}

\* --------------------------------------------------------------- actions
\* lines 180, 144, 119-128 and 133: main calls create_filename, which calls
\* get_next_recording_dir; the call snapshots the volumes, picks its target
\* and tests it.
get_next_recording_dir_Begin ==
    /\ pc = "loop"
    /\ cycle < MaxCycles
    /\ LET devs == get_usb_devices
           t == SelectTarget(devs, _current_usb_index)
       IN /\ usb_devices' = devs
          /\ target' = t
          /\ call0' = Some([cursor |-> _current_usb_index,
                            nsegs |-> SumLen(Catalogued),
                            full |-> {v \in AllVols :
                                        free[v] < min_free_space_gb}])
          /\ pc' = IF is_device_full(t, min_free_space_gb) THEN "free" ELSE "ret"
    /\ result' = None
    /\ iters' = 0
    /\ lastDel' = None
    /\ UNCHANGED <<media, free, files, _current_usb_index, cycle, err,
                   encoder, recVol, dirs>>

\* lines 101-112: one iteration that deletes the oldest segment
free_up_space_Delete ==
    /\ pc = "free"
    /\ is_device_full(target, min_free_space_gb)
    /\ find_oldest_recording # None
    /\ LET oldest_file == find_oldest_recording
       IN /\ files' = Unlink(oldest_file)
          /\ free' = Reclaimed(oldest_file)
          /\ lastDel' = Some([vol |-> oldest_file[1],
                               idx |-> oldest_file[2],
                               mtime |-> SegAt(oldest_file).mtime])
    /\ iters' = iters + 1
    /\ UNCHANGED <<media, _current_usb_index, pc, cycle, usb_devices, target,
                   result, err, call0, encoder, recVol, dirs>>

\* mutant of free_up_space_DeleteFails: the failure is skipped, the loop goes on
free_up_space_DeleteFails_skips ==
    /\ pc = "free"
    /\ is_device_full(target, min_free_space_gb)
    /\ find_oldest_recording # None
    /\ iters' = iters + 1
    /\ err' = "delete"
    /\ UNCHANGED <<media, free, files, _current_usb_index, pc, cycle,
                   usb_devices, target, result, call0, lastDel, encoder, recVol,
                   dirs>>

\* lines 109-116: stat or unlink raises; the call raises RuntimeError
free_up_space_DeleteFails ==
    /\ pc = "free"
    /\ is_device_full(target, min_free_space_gb)
    /\ find_oldest_recording # None
    /\ iters' = iters + 1
    /\ err' = "delete"
    /\ pc' = "finally"
    /\ UNCHANGED <<media, free, files, _current_usb_index, cycle, usb_devices,
                   target, result, call0, lastDel, encoder, recVol, dirs>>

\* mutant of free_up_space_Exhausted: the loop gives up without raising
free_up_space_Exhausted_returns ==
    /\ pc = "free"
    /\ is_device_full(target, min_free_space_gb)
    /\ find_oldest_recording = None
    /\ iters' = iters + 1
    /\ pc' = "ret"
    /\ UNCHANGED <<media, free, files, _current_usb_index, cycle, usb_devices,
                   target, result, err, call0, lastDel, encoder, recVol,
                   dirs>>

\* lines 102-107: nothing left to delete
free_up_space_Exhausted ==
    /\ pc = "free"
    /\ is_device_full(target, min_free_space_gb)
    /\ find_oldest_recording = None
    /\ iters' = iters + 1
    /\ err' = "insufficient"
    /\ pc' = "finally"
    /\ UNCHANGED <<media, free, files, _current_usb_index, cycle, usb_devices,
                   target, result, call0, lastDel, encoder, recVol, dirs>>

\* mutant of free_up_space_Return: an `if` for the `while`, one deletion is enough
free_up_space_Return_after_one ==
    /\ pc = "free"
    /\ ~is_device_full(target, min_free_space_gb) \/ iters >= 1
    /\ pc' = "ret"
    /\ UNCHANGED <<media, free, files, _current_usb_index, cycle, usb_devices,
                   target, result, err, iters, call0, lastDel, encoder, recVol,
                   dirs>>

\* line 101: the loop condition is false, free_up_space returns
free_up_space_Return ==
    /\ pc = "free"
    /\ ~is_device_full(target, min_free_space_gb)
    /\ pc' = "ret"
    /\ UNCHANGED <<media, free, files, _current_usb_index, cycle, usb_devices,
                   target, result, err, iters, call0, lastDel, encoder, recVol,
                   dirs>>

\* lines 130-131 and 136
get_next_recording_dir_Return ==
    /\ pc = "ret"
    /\ _current_usb_index' = AdvanceCursor(usb_devices, _current_usb_index)
    /\ result' = Some(target)
    /\ pc' = "mkdir"
    /\ UNCHANGED <<media, free, files, cycle, usb_devices, target, err,
                   iters, call0, lastDel, encoder, recVol, dirs>>

\* lines 145-148 and 157: the date folder exists afterwards
create_filename_Return ==
    /\ pc = "mkdir"
    /\ dirs' = mkdir(Val(result))
    /\ pc' = "start"
    /\ UNCHANGED <<media, free, files, _current_usb_index, cycle, usb_devices,
                   target, result, err, iters, call0, lastDel, encoder, recVol>>

\* mutant of create_filename_Fails: the error is logged and the path used
create_filename_Fails_continues ==
    /\ pc = "mkdir"
    /\ mkdir_can_raise(Val(result))
    /\ err' = "mkdir"
    /\ pc' = "start"
    /\ UNCHANGED <<media, free, files, _current_usb_index, cycle, usb_devices,
                   target, result, iters, call0, lastDel, encoder, recVol,
                   dirs>>

\* lines 149-155: mkdir raises, create_filename raises RuntimeError
create_filename_Fails ==
    /\ pc = "mkdir"
    /\ mkdir_can_raise(Val(result))
    /\ err' = "mkdir"
    /\ pc' = "finally"
    /\ UNCHANGED <<media, free, files, _current_usb_index, cycle, usb_devices,
                   target, result, iters, call0, lastDel, encoder, recVol,
                   dirs>>

\* lines 181-188
start_encoder ==
    /\ pc = "start"
    /\ encoder' = "on"
    /\ recVol' = result
    /\ pc' = "sleep"
    /\ UNCHANGED <<media, free, files, _current_usb_index, cycle, usb_devices,
                   target, result, err, iters, call0, lastDel, dirs>>

\* line 190: the encoder writes the segment while main sleeps
Record(size) ==
    /\ pc = "sleep"
    /\ size = Min2(SegmentSize, free[Val(recVol)])
    /\ files' = [files EXCEPT ![Val(recVol)] =
                    Append(@, [mtime |-> MaxSegs + cycle + 1, size |-> size])]
    /\ free' = [free EXCEPT ![Val(recVol)] = @ - size]
    /\ pc' = "stop"
    /\ UNCHANGED <<media, _current_usb_index, cycle, usb_devices, target,
                   result, err, iters, call0, lastDel, encoder, recVol, dirs>>

\* lines 192-193, then back to line 179
stop_encoder ==
    /\ pc = "stop"
    /\ encoder' = "off"
    /\ cycle' = cycle + 1
    /\ pc' = "loop"
    /\ usb_devices' = <<>>
    /\ target' = Primary
    /\ result' = None
    /\ iters' = 0
    /\ call0' = None
    /\ lastDel' = None
    /\ recVol' = None
    /\ UNCHANGED <<media, free, files, _current_usb_index, err, dirs>>

\* line 195: Ctrl-C anywhere inside the try block
KeyboardInterrupt ==
    /\ pc \in {"loop", "free", "ret", "mkdir", "start", "sleep", "stop"}
    /\ err' = "interrupt"
    /\ pc' = "finally"
    /\ usb_devices' = <<>>
    /\ target' = Primary
    /\ result' = None
    /\ iters' = 0
    /\ call0' = None
    /\ lastDel' = None
    /\ UNCHANGED <<media, free, files, _current_usb_index, cycle, encoder,
                   recVol, dirs>>

\* lines 199-201
main_Finally ==
    /\ pc = "finally"
    /\ encoder' = "off"
    /\ pc' = "done"
    /\ UNCHANGED <<media, free, files, _current_usb_index, cycle, usb_devices,
                   target, result, err, iters, call0, lastDel, recVol, dirs>>

Next ==
    \/ get_next_recording_dir_Begin
    \/ free_up_space_Delete
    \/ free_up_space_DeleteFails
    \/ free_up_space_Exhausted
    \/ free_up_space_Return
    \/ get_next_recording_dir_Return
    \/ create_filename_Return
    \/ create_filename_Fails
    \/ start_encoder
    \/ \E size \in 0..SegmentSize : Record(size)
    \/ stop_encoder
    \/ KeyboardInterrupt
    \/ main_Finally

Spec == Init /\ [][Next]_vars

\* ------------------------------------------------------------ equal times
\* One allocation call on a pool whose segments can share a modification
\* time (copied or restored files, a coarse filesystem clock).  A volume
\* starts with no free space or with the most there can be.
InitTies ==
    /\ files \in [AllVols -> BoundedSeqs(Segment, MaxTied)]
    /\ SumLen(AllVols) <= MaxTied
    /\ \E M \in SUBSET Usb : media = MountTree(M)
    /\ free \in [AllVols -> {0, MaxFree}]
    /\ _current_usb_index = 0
    /\ pc = "loop"
    /\ cycle = 0
    /\ usb_devices = <<>>
    /\ target = Primary
    /\ result = None
    /\ err = "none"
    /\ iters = 0
    /\ call0 = None
    /\ lastDel = None
    /\ encoder = "off"
    /\ recVol = None
    /\ dirs = {}

NextTies ==
    \/ get_next_recording_dir_Begin
    \/ free_up_space_Delete
    \/ free_up_space_DeleteFails
    \/ free_up_space_Exhausted
    \/ free_up_space_Return
    \/ get_next_recording_dir_Return

SpecTies == InitTies /\ [][NextTies]_vars

\* ---------------------------------------------------------- changing pool
\* The capture loop with removable volumes that come and go between two
\* allocation calls.  A volume keeps its files and its free space while it
\* is away.
Present == [is_dir |-> TRUE, hidden |-> FALSE, writable |-> TRUE]
Absent == [is_dir |-> FALSE, hidden |-> FALSE, writable |-> FALSE]

Plug(v) ==
    /\ pc = "loop"
    /\ v \notin mounted
    /\ media' = [media EXCEPT !.dev[<<1, v>>] = Present]
    /\ UNCHANGED <<free, files, _current_usb_index, pc, cycle, usb_devices,
                   target, result, err, iters, call0, lastDel, encoder, recVol,
                   dirs>>

Unplug(v) ==
    /\ pc = "loop"
    /\ v \in mounted
    /\ media' = [media EXCEPT !.dev[<<1, v>>] = Absent]
    /\ UNCHANGED <<free, files, _current_usb_index, pc, cycle, usb_devices,
                   target, result, err, iters, call0, lastDel, encoder, recVol,
                   dirs>>

InitPool ==
    /\ \E M \in SUBSET Usb : media = MountTree(M)
    /\ free \in [AllVols -> (MaxFree - 1)..MaxFree]
    /\ files = [v \in AllVols |-> <<>>]
    /\ _current_usb_index = 0
    /\ pc = "loop"
    /\ cycle = 0
    /\ usb_devices = <<>>
    /\ target = Primary
    /\ result = None
    /\ err = "none"
    /\ iters = 0
    /\ call0 = None
    /\ lastDel = None
    /\ encoder = "off"
    /\ recVol = None
    /\ dirs = {}

NextPool ==
    \/ Next
    \/ \E v \in Usb : Plug(v)
    \/ \E v \in Usb : Unplug(v)

SpecPool == InitPool /\ [][NextPool]_vars

\* ------------------------------------------------------------ discovery
\* get_usb_devices on its own, over every mount tree
InitDiscovery ==
    /\ media \in MediaTrees
    /\ free = [v \in AllVols |-> MaxFree]
    /\ files = [v \in AllVols |-> <<>>]
    /\ _current_usb_index = 0
    /\ pc = "loop"
    /\ cycle = 0
    /\ usb_devices = <<>>
    /\ target = Primary
    /\ result = None
    /\ err = "none"
    /\ iters = 0
    /\ call0 = None
    /\ lastDel = None
    /\ encoder = "off"
    /\ recVol = None
    /\ dirs = {}

\* line 121: usb_devices = get_usb_devices()
Discover ==
    /\ pc = "loop"
    /\ usb_devices' = get_usb_devices
    /\ pc' = "discovered"
    /\ UNCHANGED <<media, free, files, _current_usb_index, cycle, target, result,
                   err, iters, call0, lastDel, encoder, recVol, dirs>>

NextDiscovery == Discover

SpecDiscovery == InitDiscovery /\ [][NextDiscovery]_vars

\* ----------------------------------------------------------------- claims
\* What the claims read, stated on the state itself.
Threshold == min_free_space_gb
Pool == mounted \cup {Primary}
PoolSegments == UNION {{<<v, i>> : i \in DOMAIN files[v]} : v \in Pool}
MtimeOf(e) == files[e[1]][e[2]].mtime
AllocationErrors == {"insufficient", "delete"}
CallReturned == pc = "mkdir" /\ result # None
CallFailed == pc = "finally" /\ err \in AllocationErrors
IndexAtCall == Val(call0).cursor % Len(usb_devices)

\* C1: right after get_next_recording_dir returns a directory, the free space
\* of the volume it belongs to is at least the configured minimum.
C1_ReturnedVolumeMeetsThreshold ==
    CallReturned => free[Val(result)] >= Threshold

\* C1 witness: a removable volume is returned after the eviction loop acted.
C1_Witness ==
    /\ CallReturned
    /\ Val(result) \in Usb
    /\ iters > 0
    /\ Val(result) \in Val(call0).full

\* C2 (as claimed): with the removable volumes all below the threshold or all
\* at or above it, after a call that targeted index i the next call targets
\* index (i+1) mod N.
C2_NextCallTargetsNextVolume ==
    ( /\ CallReturned \/ CallFailed
      /\ usb_devices # <<>>
      /\ \/ mounted \subseteq Val(call0).full
         \/ mounted \cap Val(call0).full = {} )
    => _current_usb_index % Len(usb_devices)
         = (IndexAtCall + 1) % Len(usb_devices)

\* C3 (as claimed): when removable volumes exist, every call advances the
\* cursor by exactly one, whether it returns the target or fails.
C3_CursorAdvancesOnEveryCall ==
    ( /\ CallReturned \/ CallFailed
      /\ usb_devices # <<>> )
    => _current_usb_index = Val(call0).cursor + 1

\* C4: every deletion of free_up_space removes exactly one segment, one with
\* the smallest modification time among all segments of all catalogued
\* volumes, and leaves every other segment alone; the deletions of one call
\* are in non-decreasing modification-time order.
C4_GlobalLeastRecentEviction ==
    [][ (pc = "free" /\ files' # files) =>
          \E e \in PoolSegments :
              /\ files' = [files EXCEPT ![e[1]] = RemoveAt(files[e[1]], e[2])]
              /\ \A o \in PoolSegments : MtimeOf(e) <= MtimeOf(o)
              /\ lastDel # None => Val(lastDel).mtime <= MtimeOf(e) ]_vars

\* C4 witness: the segment deleted lived on another volume than the target,
\* and a segment of the target is still there.
C4_Witness ==
    /\ pc = "free"
    /\ lastDel # None
    /\ Val(lastDel).vol # target
    /\ files[target] # <<>>

\* C5: free_up_space called on a volume below the minimum, with no segment on
\* any catalogued volume, fails with the insufficient-storage error and
\* changes neither the segments nor any volume's free space.
C5_ExhaustionDeletesNothing ==
    [][ ( /\ pc = "free"
          /\ iters = 0
          /\ free[target] < Threshold
          /\ PoolSegments = {}
          /\ err' # "interrupt" )
        => ( /\ pc' = "finally"
             /\ err' = "insufficient"
             /\ files' = files
             /\ free' = free ) ]_vars

\* C5 witness: the call failed at once on an empty pool.
C5_Witness ==
    /\ pc = "finally"
    /\ err = "insufficient"
    /\ Val(call0).nsegs = 0
    /\ iters = 1

\* C6: a call of free_up_space runs at most (segments in the pool when it
\* began) + 1 iterations; it returns only with the target at the minimum and
\* raises only on an empty pool or a failed delete.
C6_RetentionTerminates ==
    /\ call0 # None => iters <= Val(call0).nsegs + 1
    /\ pc = "ret" => free[target] >= Threshold
    /\ (pc = "finally" /\ err = "insufficient") => PoolSegments = {}

\* C6 witness: every segment of the pool was deleted and the call then gave up.
C6_Witness ==
    /\ pc = "finally"
    /\ err = "insufficient"
    /\ Val(call0).nsegs >= 2
    /\ iters = Val(call0).nsegs + 1

\* C7: with removable volumes catalogued, a call considers the one volume at
\* cursor mod count; it returns that volume or fails, and never returns the
\* primary or another removable volume.
C7_OneRemovableCandidate ==
    (call0 # None /\ usb_devices # <<>>) =>
        /\ target = usb_devices[IndexAtCall + 1]
        /\ result \in {None, Some(target)}
        /\ CallFailed => result = None

\* C7 witness: the call failed on its removable target while the primary and
\* another removable volume had room.
C7_Witness ==
    /\ CallFailed
    /\ usb_devices # <<>>
    /\ free[Primary] >= Threshold
    /\ \E v \in mounted : v # target /\ free[v] >= Threshold

\* C8: with no removable volume catalogued, the call returns the primary
\* whenever the primary has the minimum free (or eviction brings it there),
\* and fails with the storage error when the primary is below the minimum
\* and no segment exists.
C8_FallbackToPrimary ==
    (call0 # None /\ usb_devices = <<>>) =>
        /\ target = Primary
        /\ result \in {None, Some(Primary)}
        /\ CallReturned => free[Primary] >= Threshold
        /\ Primary \notin Val(call0).full =>
              /\ err \notin AllocationErrors
              /\ pc # "free"
              /\ iters = 0
        /\ (Primary \in Val(call0).full /\ Val(call0).nsegs = 0 /\ pc # "free") =>
              /\ pc \in {"finally", "done"}
              /\ err = "insufficient"
              /\ result = None

\* C8 witness: the primary is returned after eviction brought it to the
\* minimum.
C8_Witness ==
    /\ CallReturned
    /\ usb_devices = <<>>
    /\ result = Some(Primary)
    /\ Primary \in Val(call0).full

\* C9: a failed delete aborts free_up_space at once with the segments as they
\* were, and nothing is deleted once the call has failed.
C9_DeleteFailureIsFatal ==
    [][ /\ (pc = "free" /\ err' = "delete") =>
              (pc' = "finally" /\ files' = files /\ free' = free)
        /\ err = "delete" => (files' = files /\ pc' \in {"finally", "done"}) ]_vars

\* C9 witness: a delete failed after an earlier one of the same call succeeded.
C9_Witness ==
    /\ pc = "finally"
    /\ err = "delete"
    /\ iters >= 2
    /\ PoolSegments # {}

\* C10: the encoder is started only on the directory an allocation of the same
\* iteration returned, which still has the minimum free; once an allocation
\* or naming call has failed no recording is started.
C10_RecordOnlyIntoAllocated ==
    [][ (encoder = "off" /\ encoder' = "on") =>
            /\ err = "none"
            /\ result # None
            /\ recVol' = result
            /\ result = Some(target)
            /\ free[Val(result)] >= Threshold ]_vars

\* C10 witness: a later iteration records onto a removable volume.
C10_Witness ==
    /\ encoder = "on"
    /\ cycle >= 1
    /\ Val(recVol) \in Usb

\* C11 (as claimed): in every state right after a successful allocation every
\* catalogued volume, not only the one returned, has free space of at least
\* the minimum.
C11_EveryVolumeKeepsMinimum ==
    CallReturned => \A v \in Pool : free[v] >= Threshold

\* C11 (amended): from a successful allocation until the encoder is started,
\* the returned volume has free space of at least the minimum, and so has
\* every volume that had it when the call began; the other volumes may stay
\* below.
C11_ReturnedAndHealthyVolumesKeepMinimum ==
    (pc \in {"mkdir", "start"} /\ result # None) =>
        \A v \in AllVols :
            (v = Val(result) \/ v \notin Val(call0).full) => free[v] >= Threshold

\* C11 witness: a later allocation returned its volume after eviction while
\* another catalogued volume is below the minimum.
C11_Witness ==
    /\ pc = "start"
    /\ cycle >= 1
    /\ iters >= 1
    /\ \E v \in Pool : v # Val(result) /\ free[v] < Threshold

\* C15: a call whose target already has the minimum free, exactly the minimum
\* included, deletes no segment; a segment disappears only in an eviction step
\* of free_up_space, never in another step.
C15_NoEvictionWithoutNeed ==
    [][ (\E v \in AllVols : Len(files'[v]) < Len(files[v])) =>
            /\ pc = "free"
            /\ pc' = "free"
            /\ free[target] < Threshold
            /\ target \in Val(call0).full ]_vars

\* C15 witness: the call returned a target with exactly the minimum free, and
\* without a deletion, while segments were there to delete.
C15_Witness ==
    /\ CallReturned
    /\ free[target] = Threshold
    /\ iters = 0
    /\ lastDel = None
    /\ PoolSegments # {}

\* C16: when free_up_space fails with the insufficient-storage error, no
\* segment is left on any catalogued volume: every segment the pool held when
\* the call began was deleted, those of volumes above the minimum too.
C16_FailureEmptiesThePool ==
    (pc \in {"finally", "done"} /\ err = "insufficient") =>
        /\ \A v \in Pool : files[v] = <<>>
        /\ iters = Val(call0).nsegs + 1

\* C16 witness: the call failed after deleting a segment of another volume
\* that was not below the minimum.
C16_Witness ==
    /\ pc = "finally"
    /\ err = "insufficient"
    /\ lastDel # None
    /\ Val(lastDel).vol # target
    /\ Val(lastDel).vol \notin Val(call0).full

\* C17: the cursor changes only in get_next_recording_dir's return with a
\* removable target, by exactly +1 and once per call; the primary fallback and
\* every other step leave it unchanged.
C17_CursorChangesOnlyByOne ==
    [][ /\ _current_usb_index' # _current_usb_index =>
              /\ pc = "ret"
              /\ pc' = "mkdir"
              /\ usb_devices # <<>>
              /\ _current_usb_index = Val(call0).cursor
              /\ _current_usb_index' = _current_usb_index + 1
        /\ (pc = "ret" /\ usb_devices = <<>>) =>
              _current_usb_index' = _current_usb_index ]_vars

\* C17 witness: a second call evicted a segment and returned a removable
\* volume; the cursor is one above its value when the call began.
C17_Witness ==
    /\ CallReturned
    /\ usb_devices # <<>>
    /\ iters >= 1
    /\ _current_usb_index = Val(call0).cursor + 1
    /\ _current_usb_index >= 2

\* C19 (as claimed): every stop of the encoder the driver issues finds a
\* recording that was started and not yet stopped; the finally block issues
\* one (line 200) whenever it runs.
C19_StopFollowsStart ==
    pc = "finally" => encoder = "on"

\* C14: a call of create_filename whose date folder already exists on the
\* allocated volume (a second call in the same date bucket) raises no error
\* and leaves the set of directories as it is.
C14_ExistingFolderIsAccepted ==
    [][ (pc = "mkdir" /\ Val(result) \in dirs /\ err' # "interrupt") =>
            /\ pc' = "start"
            /\ err' = "none"
            /\ dirs' = dirs ]_vars

\* C14 witness: a later call returned a path on the one volume every earlier
\* call of the day had used.
C14_Witness ==
    /\ pc = "start"
    /\ cycle >= 1
    /\ err = "none"
    /\ dirs = {Val(result)}

\* C13: get_usb_devices returns exactly the second-level entries that are
\* directories, not hidden, writable, and lie under a first-level directory
\* that is not hidden; the result is in path order without repetition; a
\* first-level directory whose listing is refused loses its own entries only,
\* and a missing or unlistable root gives the empty result, never a failure.
Qualifies(s) ==
    /\ media.exists /\ ~media.denied
    /\ media.user[s[1]].is_dir /\ ~media.user[s[1]].hidden
    /\ ~media.user[s[1]].denied
    /\ media.dev[s].is_dir /\ ~media.dev[s].hidden /\ media.dev[s].writable

C13_DiscoveryFindsWritableDevices ==
    pc = "discovered" =>
        /\ Elems(usb_devices) = {PathId(s[1], s[2]) : s \in {q \in Slots : Qualifies(q)}}
        /\ \A i, j \in DOMAIN usb_devices : i < j => usb_devices[i] < usb_devices[j]

\* C13 witness: the listing came in descending order, one user directory
\* refused its listing although a writable device lies in it, and the other
\* yielded two devices.
C13_Witness ==
    /\ pc = "discovered"
    /\ media.reversed
    /\ Len(usb_devices) >= 2
    /\ \E s \in Slots :
          /\ media.user[s[1]].denied
          /\ media.dev[s].is_dir /\ ~media.dev[s].hidden /\ media.dev[s].writable

\* C18: with removable volumes appearing and disappearing between calls, a
\* call that finds at least one removable volume targets a member of its own
\* snapshot, at index cursor mod count, whatever the cursor has grown to; the
\* snapshot is the discovery made by this call, and a volume that is not in
\* it is never returned.
C18_TargetIsInTheSnapshot ==
    (call0 # None /\ usb_devices # <<>>) =>
        /\ usb_devices = get_usb_devices
        /\ IndexAtCall \in 0..(Len(usb_devices) - 1)
        /\ target = usb_devices[IndexAtCall + 1]
        /\ target \in mounted
        /\ result # None => Val(result) \in Elems(usb_devices)

\* C18 witness: a call returned a volume although a volume used earlier has
\* gone since and the cursor had passed the number of volumes left.
C18_Witness ==
    /\ CallReturned
    /\ usb_devices # <<>>
    /\ \E v \in dirs : v \in Usb /\ v \notin mounted
    /\ Val(call0).cursor >= Len(usb_devices)

\* C12: among the segments that share the smallest modification time,
\* find_oldest_recording selects the first in scan order: removable volumes
\* in path order, then the primary, and listing order within a volume; a
\* later segment of equal time never replaces an earlier one.
ScansBefore(a, b) ==
    \/ a[1] # Primary /\ b[1] = Primary
    \/ a[1] # Primary /\ b[1] # Primary /\ a[1] < b[1]
    \/ a[1] = b[1] /\ a[2] < b[2]

C12_FirstOfEqualTimesIsSelected ==
    [][ (pc = "free" /\ files' # files) =>
          LET e == <<Val(lastDel').vol, Val(lastDel').idx>>
          IN /\ e \in PoolSegments
             /\ files' = [files EXCEPT ![e[1]] = RemoveAt(files[e[1]], e[2])]
             /\ \A o \in PoolSegments \ {e} :
                    \/ MtimeOf(e) < MtimeOf(o)
                    \/ MtimeOf(e) = MtimeOf(o) /\ ScansBefore(e, o) ]_vars

\* C12 witness: a segment was deleted while a segment of the same time is
\* still there, on the same volume or on another.
C12_Witness ==
    /\ lastDel # None
    /\ iters = 1
    /\ \E o \in PoolSegments : MtimeOf(o) = Val(lastDel).mtime

====
